---- MODULE Spec2Model ----
(***************************************************************************)
(* Task-MGMT backend: role-scoped task workflow, user directory, audit     *)
(* log and account lockout, modelled from the Express handlers and the     *)
(* Mongoose models.  One action per HTTP handler; documents are records,   *)
(* collections are functions from ids to records, the audit collection is  *)
(* a sequence in insertion order.                                          *)
(***************************************************************************)
EXTENDS Integers, Sequences, FiniteSets, TLC

VARIABLES
    users,      \* User collection: id -> document
    tasks,      \* Task collection: id -> document (exists = FALSE: not created)
    audit,      \* AuditLog collection, in insertion order
    now,        \* the clock read by Date.now() / new Date()
    logins,     \* in-flight POST /login requests: the document each one loaded
    loaded,     \* in-flight PUT /:id/status requests: the task each one loaded
    rateLimitStore, \* global.rateLimitStore: key -> times of the admitted requests
    auditOk,    \* whether the AuditLog collection accepts writes
    last        \* the last request served and its response

vars == <<users, tasks, audit, now, logins, loaded, rateLimitStore, auditOk, last>>

-----------------------------------------------------------------------------
(* Bounds of the model *)

MaxClock == 3       \* the clock stops here
MaxHist == 2        \* longest statusHistory explored
MaxAudit == 2       \* longest audit log explored
MaxLoginAudit == 7  \* longest audit log explored by the login specifications
MaxInFlight == 2    \* login requests between their read and their write
MaxMonths == 4      \* months the clock may jump ahead
MaxAdmitted == 6    \* sensitive requests the limiter admits in all

(* Program constants *)

maxAttempts == 5    \* MAX_LOGIN_ATTEMPTS default
lockoutTime == 2    \* LOCKOUT_TIME default (30 minutes), in clock ticks of 15 minutes
TicksPerDay == 96   \* 24 * 60 * 60 * 1000 ms, in clock ticks of 15 minutes
minDays == 30       \* shortest retention the cleanup accepts
maxDays == 365      \* longest retention the cleanup accepts
defaultDays == 90   \* retention when the query names none
sessionTimeout == 1 \* SESSION_TIMEOUT default (15 minutes), in clock ticks of 15 minutes
windowMs == 3       \* the limiter's window (15 minutes), in clock ticks of 5 minutes:
                    \* the limiter is followed on a finer clock than the rest
maxSensitive == 5   \* maxAttempts of sensitiveOperationLimit

-----------------------------------------------------------------------------
(* Values *)

Null == "null"              \* JavaScript null / a missing document
Undefined == "undefined"    \* a path that was not selected or not sent
NoDate == 0 - 1             \* null in a Date or Number path

UserIds == {"A", "M1", "M2", "E1", "E2", "N1"}

\* The keys of the limiter's store that are followed: caller address and
\* user
RateKeys == {<<"ip1", "E1">>, <<"ip2", "E1">>, <<"ip1", "E2">>}
TaskIds == {"t1", "t2"}

Statuses == {"pending", "in_progress", "completed", "approved", "rejected"}

\* auditLogSchema.action enum
AuditActions ==
    {"login", "logout", "failed_login", "password_change", "user_created",
     "user_updated", "user_deleted", "task_created", "task_updated",
     "task_deleted", "task_assigned", "task_completed", "task_approved",
     "task_rejected", "comment_added", "attachment_uploaded",
     "notification_sent", "report_generated", "role_changed", "team_updated",
     "settings_changed", "data_export", "system_access"}

\* auditLogSchema.resource enum
AuditResources == {"user", "task", "notification", "report", "system", "auth"}

\* `task_${status}` of the status handler
StatusAction(status) ==
    CASE status = "pending" -> "task_pending"
      [] status = "in_progress" -> "task_in_progress"
      [] status = "completed" -> "task_completed"
      [] status = "approved" -> "task_approved"
      [] status = "rejected" -> "task_rejected"

\* new User({role, managerId}): the schema's defaults for the other paths
NewUser(role, managerId) ==
    [exists |-> TRUE, name |-> "n0", role |-> role, managerId |-> managerId,
     teamMembers |-> {}, isActive |-> TRUE, loginAttempts |-> 0,
     lockUntil |-> NoDate, lastLogin |-> NoDate]

\* A slot of the User collection before a user is created in it
NoUser == [NewUser(Null, Null) EXCEPT !.exists = FALSE]

\* The documents of the directory the task workflow runs against: one
\* super admin, two managers, one employee in each manager's team; N1 is
\* not registered yet.
Directory ==
    [u \in UserIds |->
        CASE u = "A" -> NewUser("super_admin", Null)
          [] u = "M1" -> [NewUser("manager", Null) EXCEPT !.teamMembers = {"E1"}]
          [] u = "M2" -> [NewUser("manager", Null) EXCEPT !.teamMembers = {"E2"}]
          [] u = "E1" -> NewUser("employee", "M1")
          [] u = "E2" -> NewUser("employee", "M2")
          [] u = "N1" -> NoUser]

\* A slot of the Task collection before POST /api/tasks fills it
NoTask ==
    [exists |-> FALSE, assignedBy |-> Null, assignedTo |-> Null,
     status |-> "pending", statusHistory |-> <<>>, deadline |-> 0,
     priority |-> "medium", completedAt |-> NoDate, approvedAt |-> NoDate,
     approvedBy |-> Null, rejectionReason |-> Null, actualHours |-> NoDate,
     title |-> "v0", isArchived |-> FALSE]

NoRequest ==
    [op |-> "none", actor |-> Null, target |-> Null, arg |-> Null,
     extra |-> Null, code |-> 0, result |-> {}, notified |-> {}]

\* A request (operation, caller, :id, main argument, second argument) and
\* its response (HTTP status, ids of the documents in the body); notified
\* holds the users the handler called sendNotification for
Respond(op, actor, target, arg, extra, code, result) ==
    [op |-> op, actor |-> actor, target |-> target, arg |-> arg,
     extra |-> extra, code |-> code, result |-> result, notified |-> {}]

-----------------------------------------------------------------------------
(* AuditLog model *)

AuditEntry(user, action, resource, resourceId, success, severity, category, details) ==
    [user |-> user, action |-> action, resource |-> resource,
     resourceId |-> resourceId, success |-> success, severity |-> severity,
     category |-> category, details |-> details, createdAt |-> NoDate]

NoDetails ==
    [userRole |-> Null, previousStatus |-> Null, newStatus |-> Null,
     reason |-> Null]

\* Schema validation run by auditLog.save(): user is required, action and
\* resource are enums.
AuditValid(entry) ==
    /\ entry.user # Null
    /\ entry.action \in AuditActions
    /\ entry.resource \in AuditResources

\* AuditLog.logAction: save the entry, stamped by timestamps: true; a failed
\* save is caught and dropped.
logAction(log, entry) ==
    IF auditOk /\ AuditValid(entry)
    THEN Append(log, [entry EXCEPT !.createdAt = now])
    ELSE log

-----------------------------------------------------------------------------
(* User model and auth middleware *)

\* User.findOne({ email }) finds a document
Registered(email) == email \in UserIds /\ users[email].exists

\* userSchema.virtual('isLocked')
isLocked(user) == user.lockUntil # NoDate /\ user.lockUntil > now

\* user.lastLogin && (Date.now() - user.lastLogin.getTime()) > sessionTimeout
sessionExpired(user) ==
    user.lastLogin # NoDate /\ now - user.lastLogin > sessionTimeout

\* authenticate without the test of isActive
authenticateAnyAccount(u) ==
    IF ~users[u].exists THEN 401
    ELSE IF isLocked(users[u]) THEN 423
    ELSE IF sessionExpired(users[u]) THEN 401
    ELSE 0

\* authenticate: 0 when the request goes on to the route, else the status
\* answered. The token's user must exist, be active, not be locked and
\* have logged in no longer than sessionTimeout ago.
authenticate(u) ==
    IF ~users[u].exists \/ ~users[u].isActive THEN 401
    ELSE IF isLocked(users[u]) THEN 423
    ELSE IF sessionExpired(users[u]) THEN 401
    ELSE 0

\* The message of the answer authenticate gives (Null: the request goes on)
authMessage(u) ==
    IF ~users[u].exists THEN "user_not_found"
    ELSE IF ~users[u].isActive THEN "deactivated"
    ELSE IF isLocked(users[u]) THEN "locked"
    ELSE IF sessionExpired(users[u]) THEN "session_expired"
    ELSE Null

\* The entry authenticate logs for an expired session (success and
\* severity are the schema's defaults)
SessionTimeoutEntry(u) ==
    AuditEntry(u, "logout", "auth", Null, TRUE, "low", "security",
               [NoDetails EXCEPT !.reason = "session_timeout"])

\* The audit entry authorize() writes when the caller's role is not allowed
AccessDeniedEntry(u) ==
    AuditEntry(u, "system_access", "system", Null, FALSE, "medium", "security",
               [NoDetails EXCEPT !.userRole = users[u].role])

\* authorize(...roles)
authorize(u, roles) == users[u].role \in roles

-----------------------------------------------------------------------------
(* Task model *)

\* .populate(path, 'name email role'): the referenced user with the selected
\* paths only; a path that is not selected reads undefined.
PopulateSelect == {"name", "email", "role"}

populate(id) ==
    [_id |-> id,
     role |-> IF "role" \in PopulateSelect THEN users[id].role ELSE Undefined,
     managerId |-> IF "managerId" \in PopulateSelect
                   THEN users[id].managerId ELSE Undefined]

\* req.user.role === 'manager' &&
\*   task.assignedTo.managerId?.toString() === req.user._id.toString()
\* on the populated task; reading a property of a null assignedTo throws.
managerOwnsAssignee(task, u) ==
    IF users[u].role # "manager" THEN "false"
    ELSE IF task.assignedTo = Null THEN "throw"
    ELSE IF populate(task.assignedTo).managerId = u THEN "true" ELSE "false"

\* task.assignedTo._id.toString() === req.user._id.toString()
isAssignee(task, u) ==
    IF task.assignedTo = Null THEN "throw"
    ELSE IF task.assignedTo = u THEN "true" ELSE "false"

\* a || b, where a and b are "true", "false" or "throw" and b is evaluated
\* only when a is false
OrElse(a, b) == IF a = "false" THEN b ELSE a

Bool(b) == IF b THEN "true" ELSE "false"

\* hasPermission with the super admin let through for every status
hasPermissionAdminFirst(task, u, status) ==
    IF users[u].role = "super_admin" THEN "true"
    ELSE IF status \in {"in_progress", "completed"} THEN isAssignee(task, u)
    ELSE OrElse(Bool(task.assignedBy = u),
         OrElse(IF status = "pending" THEN isAssignee(task, u) ELSE "false",
                managerOwnsAssignee(task, u)))

\* PUT /:id/status: hasPermission, by requested status
hasPermission(task, u, status) ==
    IF status \in {"in_progress", "completed"} THEN
        isAssignee(task, u)
    ELSE IF status \in {"approved", "rejected"} THEN
        OrElse(Bool(users[u].role = "super_admin"),
        OrElse(Bool(task.assignedBy = u),
               managerOwnsAssignee(task, u)))
    ELSE
        OrElse(Bool(users[u].role = "super_admin"),
        OrElse(Bool(task.assignedBy = u),
        OrElse(isAssignee(task, u),
               managerOwnsAssignee(task, u))))

\* GET /:id and POST /:id/comments: hasAccess
hasAccess(task, u) ==
    OrElse(Bool(users[u].role = "super_admin"),
    OrElse(isAssignee(task, u),
    OrElse(Bool(task.assignedBy = u),
           managerOwnsAssignee(task, u))))

\* PUT /:id: canEdit
canEdit(task, u) ==
    OrElse(Bool(users[u].role = "super_admin"),
    OrElse(Bool(task.assignedBy = u),
           managerOwnsAssignee(task, u)))

\* taskSchema.pre('save') on a loaded document: old is the document as
\* loaded, new the document with the handler's assignments; isModified
\* holds of a path whose value differs from the loaded one.
preSave(old, new, statusChangedBy) ==
    LET modified == new.status # old.status
        pushed == IF modified
                  THEN [new EXCEPT !.statusHistory =
                            Append(@, [status |-> new.status,
                                       changedBy |-> IF statusChangedBy # Undefined
                                                     THEN statusChangedBy
                                                     ELSE new.assignedBy])]
                  ELSE new
        completed == IF modified /\ pushed.status = "completed"
                        /\ pushed.completedAt = NoDate
                     THEN [pushed EXCEPT !.completedAt = now] ELSE pushed
    IN  IF modified /\ completed.status = "approved" /\ completed.approvedAt = NoDate
        THEN [completed EXCEPT !.approvedAt = now] ELSE completed

\* Validation run by task.save(): the required references
saveValid(task) == task.assignedBy # Null /\ task.assignedTo # Null

\* taskSchema.methods.updateStatus, up to its save()
updateStatus(task, newStatus, changedBy) ==
    LET set == [task EXCEPT !.status = newStatus]
        appr == IF newStatus = "approved"
                THEN [set EXCEPT !.approvedBy = changedBy, !.approvedAt = now]
                ELSE set
    IN  preSave(task, appr, changedBy)

\* What sendNotification did: nothing (no Firebase app, no FCM token,
\* notifications switched off), or a send that succeeded or failed; a send
\* is logged whichever way it ended.
NotifyOutcomes == {"none", "sent", "failed"}

sendNotification(log, userId, outcome) ==
    IF outcome = "none" THEN log
    ELSE logAction(log, AuditEntry(userId, "notification_sent", "notification",
                                   Null, outcome = "sent", "low", "system",
                                   NoDetails))

\* Every status change notified to the assignee
NotifyTargetAssignee(task, status) == task.assignedTo

\* The user the status handler notifies
NotifyTarget(task, status) ==
    IF status \in {"in_progress", "completed"} THEN task.assignedBy
    ELSE task.assignedTo

\* The users the status handler calls sendNotification for: the switch
\* has no case for pending
StatusNotified(task, status) ==
    IF status = "pending" THEN {} ELSE {NotifyTarget(task, status)}

\* previousStatus of the status handler's audit entry
previousStatus(task) ==
    IF Len(task.statusHistory) >= 2
    THEN task.statusHistory[Len(task.statusHistory) - 1].status
    ELSE "pending"

-----------------------------------------------------------------------------
(* Handlers of routes/tasks.js *)

Bounded ==
    /\ Len(audit') <= MaxAudit
    /\ \A t \in TaskIds : Len(tasks'[t].statusHistory) <= MaxHist

\* PUT /api/tasks/:id/status
TransitionTask(a, t, status, reason, outcome) ==
    LET task == tasks[t]
        perm == hasPermission(task, a, status)
        withReason == IF status = "rejected" /\ reason # Undefined
                      THEN [task EXCEPT !.rejectionReason = reason] ELSE task
        saved == updateStatus(withReason, status, a)
        notified == IF status = "pending" THEN audit
                    ELSE sendNotification(audit, NotifyTarget(saved, status), outcome)
        entry == AuditEntry(a, StatusAction(status), "task", t, TRUE, "low", "data",
                            [NoDetails EXCEPT !.previousStatus = previousStatus(saved),
                                              !.newStatus = status])
        reply(code) == Respond("transition", a, t, status, reason, code, {})
    IN
    /\ authenticate(a) = 0
    /\ IF ~task.exists THEN
            /\ last' = reply(404)
            /\ UNCHANGED <<users, tasks, audit, now, logins, loaded, rateLimitStore, auditOk>>
       ELSE IF perm = "throw" THEN
            /\ last' = reply(500)
            /\ UNCHANGED <<users, tasks, audit, now, logins, loaded, rateLimitStore, auditOk>>
       ELSE IF perm = "false" THEN
            /\ last' = reply(403)
            /\ UNCHANGED <<users, tasks, audit, now, logins, loaded, rateLimitStore, auditOk>>
       ELSE IF ~saveValid(saved) THEN
            /\ last' = reply(500)
            /\ UNCHANGED <<users, tasks, audit, now, logins, loaded, rateLimitStore, auditOk>>
       ELSE
            /\ tasks' = [tasks EXCEPT ![t] = saved]
            /\ audit' = logAction(notified, entry)
            /\ last' = [reply(200) EXCEPT !.notified = StatusNotified(saved, status)]
            /\ UNCHANGED <<users, now, logins, loaded, rateLimitStore, auditOk>>
    /\ Bounded

\* document.save() of a document loaded as doc and changed to saved, on
\* the stored document: $set of the paths that differ from the loaded
\* ones, $push of the statusHistory entries added to the loaded array
saveLoaded(stored, doc, saved) ==
    [f \in DOMAIN stored |->
        IF f = "statusHistory"
        THEN stored.statusHistory
                \o SubSeq(saved.statusHistory, Len(doc.statusHistory) + 1,
                          Len(saved.statusHistory))
        ELSE IF saved[f] # doc[f] THEN saved[f] ELSE stored[f]]

\* PUT /api/tasks/:id/status up to the await of updateStatus, for a request
\* that passes the permission check: it holds the document it loaded
TransitionLoad(a, t, status, reason) ==
    /\ authenticate(a) = 0
    /\ Len(loaded) < MaxInFlight
    /\ tasks[t].exists
    /\ hasPermission(tasks[t], a, status) = "true"
    /\ loaded' = Append(loaded, [actor |-> a, task |-> t, status |-> status,
                                 reason |-> reason, doc |-> tasks[t]])
    /\ UNCHANGED <<users, tasks, audit, now, logins, rateLimitStore, auditOk, last>>

\* PUT /api/tasks/:id/status from the save on, for the i-th request in
\* flight
TransitionSave(i, outcome) ==
    /\ i \in DOMAIN loaded
    /\ LET r == loaded[i]
           withReason == IF r.status = "rejected" /\ r.reason # Undefined
                         THEN [r.doc EXCEPT !.rejectionReason = r.reason] ELSE r.doc
           saved == updateStatus(withReason, r.status, r.actor)
           notified == IF r.status = "pending" THEN audit
                       ELSE sendNotification(audit, NotifyTarget(saved, r.status),
                                             outcome)
           entry == AuditEntry(r.actor, StatusAction(r.status), "task", r.task, TRUE,
                               "low", "data",
                               [NoDetails EXCEPT !.previousStatus = previousStatus(saved),
                                                 !.newStatus = r.status])
           reply(code) == Respond("transition", r.actor, r.task, r.status, r.reason,
                                  code, {})
       IN  IF ~saveValid(saved) THEN
                /\ last' = reply(500)
                /\ UNCHANGED <<tasks, audit>>
           ELSE
                /\ tasks' = [tasks EXCEPT ![r.task] = saveLoaded(@, r.doc, saved)]
                /\ audit' = logAction(notified, entry)
                /\ last' = [reply(200) EXCEPT
                                !.notified = StatusNotified(saved, r.status)]
    /\ loaded' = SubSeq(loaded, 1, i - 1) \o SubSeq(loaded, i + 1, Len(loaded))
    /\ UNCHANGED <<users, now, logins, rateLimitStore, auditOk>>
    /\ Bounded

\* POST /api/tasks
\* (t is the _id the new document gets)
CreateTask(a, t, assignedTo, deadline, priority, outcome) ==
    LET task == [NoTask EXCEPT !.exists = TRUE, !.assignedBy = a,
                               !.assignedTo = assignedTo, !.deadline = deadline,
                               !.priority = IF priority = Undefined
                                            THEN "medium" ELSE priority]
        notified == sendNotification(audit, assignedTo, outcome)
        entry == AuditEntry(a, "task_created", "task", t, TRUE, "low", "data",
                            NoDetails)
        reply(code) == Respond("create_task", a, Null, assignedTo, deadline, code, {})
    IN
    /\ authenticate(a) = 0
    /\ ~tasks[t].exists
    /\ IF ~authorize(a, {"super_admin", "manager"}) THEN
            /\ audit' = logAction(audit, AccessDeniedEntry(a))
            /\ last' = reply(403)
            /\ UNCHANGED <<users, tasks, now, logins, loaded, rateLimitStore, auditOk>>
       ELSE IF users[a].role = "manager" /\ users[assignedTo].managerId # a
               /\ assignedTo # a THEN
            /\ last' = reply(403)
            /\ UNCHANGED <<users, tasks, audit, now, logins, loaded, rateLimitStore, auditOk>>
       ELSE IF deadline <= now THEN
            /\ last' = reply(400)
            /\ UNCHANGED <<users, tasks, audit, now, logins, loaded, rateLimitStore, auditOk>>
       ELSE
            /\ tasks' = [tasks EXCEPT ![t] = task]
            /\ audit' = logAction(notified, entry)
            /\ last' = [reply(201) EXCEPT !.target = t, !.notified = {assignedTo}]
            /\ UNCHANGED <<users, now, logins, loaded, rateLimitStore, auditOk>>
    /\ Bounded

\* The bodies PUT /api/tasks/:id is sent: sets of <<key, value>>.  The
\* validators constrain title, description, deadline, priority,
\* estimatedHours, actualHours and tags; any other key passes untouched.
UpdatePayloads ==
    {{<<"actualHours", 1>>}, {<<"title", "v1">>}, {<<"completedAt", 0>>},
     {<<"approvedAt", 0>>}, {<<"approvedBy", "A">>}, {<<"statusHistory", <<>> >>},
     {<<"actualHours", 1>>, <<"title", "v1">>}}
        \cup {{<<"status", s>>} : s \in Statuses}

Keys(updates) == {kv[1] : kv \in updates}
Has(updates, key) == key \in Keys(updates)
Value(updates, key) == (CHOOSE kv \in updates : kv[1] = key)[2]

\* Object.keys(updates).forEach(key => { task[key] = updates[key]; })
assignUpdates(task, updates) ==
    [f \in DOMAIN task |-> IF Has(updates, f) THEN Value(updates, f) ELSE task[f]]

\* PUT /api/tasks/:id
UpdateTask(a, t, updates) ==
    LET task == tasks[t]
        edit == canEdit(task, a)
        own == IF users[a].role # "employee" THEN "false" ELSE isAssignee(task, a)
        saved == preSave(task, assignUpdates(task, updates), Undefined)
        entry == AuditEntry(a, "task_updated", "task", t, TRUE, "low", "data",
                            NoDetails)
        reply(code) == Respond("update_task", a, t, Keys(updates), Null, code, {})
    IN
    /\ authenticate(a) = 0
    /\ IF ~task.exists THEN
            /\ last' = reply(404)
            /\ UNCHANGED <<users, tasks, audit, now, logins, loaded, rateLimitStore, auditOk>>
       ELSE IF edit = "throw" THEN
            /\ last' = reply(500)
            /\ UNCHANGED <<users, tasks, audit, now, logins, loaded, rateLimitStore, auditOk>>
       ELSE IF edit = "false" THEN
            /\ last' = reply(403)
            /\ UNCHANGED <<users, tasks, audit, now, logins, loaded, rateLimitStore, auditOk>>
       ELSE IF own = "throw" THEN
            /\ last' = reply(500)
            /\ UNCHANGED <<users, tasks, audit, now, logins, loaded, rateLimitStore, auditOk>>
       ELSE IF own = "true" /\ Keys(updates) \ {"actualHours"} # {} THEN
            /\ last' = reply(403)
            /\ UNCHANGED <<users, tasks, audit, now, logins, loaded, rateLimitStore, auditOk>>
       ELSE IF ~saveValid(saved) THEN
            /\ last' = reply(500)
            /\ UNCHANGED <<users, tasks, audit, now, logins, loaded, rateLimitStore, auditOk>>
       ELSE
            /\ tasks' = [tasks EXCEPT ![t] = saved]
            /\ audit' = logAction(audit, entry)
            /\ last' = reply(200)
            /\ UNCHANGED <<users, now, logins, loaded, rateLimitStore, auditOk>>
    /\ Bounded

\* GET /api/tasks/:id
ReadTask(a, t) ==
    LET task == tasks[t]
        access == hasAccess(task, a)
        reply(code, body) == Respond("read_task", a, t, Null, Null, code, body)
    IN
    /\ authenticate(a) = 0
    /\ last' = IF ~task.exists THEN reply(404, {})
               ELSE IF access = "throw" THEN reply(500, {})
               ELSE IF access = "false" THEN reply(403, {})
               ELSE reply(200, {t})
    /\ UNCHANGED <<users, tasks, audit, now, logins, loaded, rateLimitStore, auditOk>>

\* The Mongo filter GET /api/tasks builds: or is the manager whose scope
\* the $or clause states (Null: no $or), the other fields are the query's
\* top-level keys (Undefined: key absent; status and deadline as the set of
\* values the key admits).
EmptyQuery ==
    [or |-> Null, assignedTo |-> Undefined, status |-> Statuses,
     priority |-> Undefined, title |-> Undefined, overdue |-> FALSE]

\* Role-based filtering
roleQuery(a) ==
    CASE users[a].role = "super_admin" -> EmptyQuery
      [] users[a].role = "manager" -> [EmptyQuery EXCEPT !.or = a]
      [] users[a].role = "employee" -> [EmptyQuery EXCEPT !.assignedTo = a]

\* Additional filters, assigned onto the same object
taskQuery(a, f) ==
    LET q1 == roleQuery(a)
        q2 == IF f.status # Undefined THEN [q1 EXCEPT !.status = {f.status}] ELSE q1
        q3 == IF f.priority # Undefined THEN [q2 EXCEPT !.priority = f.priority] ELSE q2
        q4 == IF f.assignedTo # Undefined THEN [q3 EXCEPT !.assignedTo = f.assignedTo] ELSE q3
        q5 == IF f.search # Undefined THEN [q4 EXCEPT !.title = f.search] ELSE q4
    IN  IF f.overdue
        THEN [q5 EXCEPT !.overdue = TRUE,
                        !.status = Statuses \ {"completed", "approved"}]
        ELSE q5

teamMemberIds(m) == {u \in UserIds : users[u].managerId = m}

\* Task.find(query): the documents matching every key of the filter
matches(task, q) ==
    /\ task.exists
    /\ q.or # Null =>
          \/ task.assignedTo = q.or
          \/ task.assignedBy = q.or
          \/ task.assignedTo \in teamMemberIds(q.or)
    /\ q.assignedTo # Undefined => task.assignedTo = q.assignedTo
    /\ task.status \in q.status
    /\ q.priority # Undefined => task.priority = q.priority
    /\ q.title # Undefined => task.title = q.title
    /\ q.overdue => task.deadline < now

TaskFilters ==
    [status : {Undefined, "pending"}, priority : {Undefined, "high"},
     assignedTo : {Undefined, "E1", "E2"}, search : {Undefined, "v0"},
     overdue : BOOLEAN]

\* GET /api/tasks
ListTasks(a, f) ==
    /\ authenticate(a) = 0
    /\ last' = Respond("list_tasks", a, Null, f.assignedTo, Null, 200,
                       {t \in TaskIds : matches(tasks[t], taskQuery(a, f))})
    /\ UNCHANGED <<users, tasks, audit, now, logins, loaded, rateLimitStore, auditOk>>

\* DELETE /api/tasks/:id
ArchiveTask(a, t) ==
    LET task == tasks[t]
        saved == preSave(task, [task EXCEPT !.isArchived = TRUE], Undefined)
        entry == AuditEntry(a, "task_deleted", "task", t, TRUE, "medium", "data",
                            NoDetails)
        reply(code) == Respond("archive_task", a, t, Null, Null, code, {})
    IN
    /\ authenticate(a) = 0
    /\ IF ~authorize(a, {"super_admin", "manager"}) THEN
            /\ audit' = logAction(audit, AccessDeniedEntry(a))
            /\ last' = reply(403)
            /\ UNCHANGED <<users, tasks, now, logins, loaded, rateLimitStore, auditOk>>
       ELSE IF ~task.exists THEN
            /\ last' = reply(404)
            /\ UNCHANGED <<users, tasks, audit, now, logins, loaded, rateLimitStore, auditOk>>
       ELSE IF users[a].role # "super_admin" /\ task.assignedBy # a THEN
            /\ last' = reply(403)
            /\ UNCHANGED <<users, tasks, audit, now, logins, loaded, rateLimitStore, auditOk>>
       ELSE IF ~saveValid(saved) THEN
            /\ last' = reply(500)
            /\ UNCHANGED <<users, tasks, audit, now, logins, loaded, rateLimitStore, auditOk>>
       ELSE
            /\ tasks' = [tasks EXCEPT ![t] = saved]
            /\ audit' = logAction(audit, entry)
            /\ last' = reply(200)
            /\ UNCHANGED <<users, now, logins, loaded, rateLimitStore, auditOk>>
    /\ Bounded

-----------------------------------------------------------------------------
(* Handlers of routes/users.js used by the task workflow *)

\* Task.updateMany of DELETE /api/users/:id: the open tasks of the
\* deactivated user lose their assignee and go back to pending.
unassign(task, userId) ==
    IF task.exists /\ task.assignedTo = userId
       /\ task.status \in {"pending", "in_progress"}
    THEN [task EXCEPT !.status = "pending", !.assignedTo = Null]
    ELSE task

\* $pull: { teamMembers: id } on the manager's document, when the user has
\* a managerId and it names a stored document
pullTeamMember(dir, managerId, id) ==
    IF managerId \in UserIds /\ dir[managerId].exists
    THEN [dir EXCEPT ![managerId].teamMembers = @ \ {id}]
    ELSE dir

\* DELETE /api/users/:id with the audit write awaited outside logAction's
\* catch: its failure reaches the handler's catch after the user is saved
DeactivateUserSurfacing(a, userId) ==
    LET entry == AuditEntry(a, "user_deleted", "user", userId, TRUE, "high", "data",
                            NoDetails)
        reply(code) == Respond("deactivate_user", a, userId, Null, Null, code, {})
    IN
    /\ authenticate(a) = 0
    /\ IF ~authorize(a, {"super_admin"}) THEN
            /\ audit' = logAction(audit, AccessDeniedEntry(a))
            /\ last' = reply(403)
            /\ UNCHANGED <<users, tasks, now, logins, loaded, rateLimitStore, auditOk>>
       ELSE IF userId = a THEN
            /\ last' = reply(400)
            /\ UNCHANGED <<users, tasks, audit, now, logins, loaded, rateLimitStore, auditOk>>
       ELSE IF ~users[userId].exists THEN
            /\ last' = reply(404)
            /\ UNCHANGED <<users, tasks, audit, now, logins, loaded, rateLimitStore, auditOk>>
       ELSE
            /\ users' = pullTeamMember([users EXCEPT ![userId].isActive = FALSE],
                                       users[userId].managerId, userId)
            /\ tasks' = [t \in TaskIds |-> unassign(tasks[t], userId)]
            /\ audit' = logAction(audit, entry)
            /\ last' = reply(IF auditOk THEN 200 ELSE 500)
            /\ UNCHANGED <<now, logins, loaded, rateLimitStore, auditOk>>
    /\ Bounded

\* DELETE /api/users/:id
DeactivateUser(a, userId) ==
    LET entry == AuditEntry(a, "user_deleted", "user", userId, TRUE, "high", "data",
                            NoDetails)
        reply(code) == Respond("deactivate_user", a, userId, Null, Null, code, {})
    IN
    /\ authenticate(a) = 0
    /\ IF ~authorize(a, {"super_admin"}) THEN
            /\ audit' = logAction(audit, AccessDeniedEntry(a))
            /\ last' = reply(403)
            /\ UNCHANGED <<users, tasks, now, logins, loaded, rateLimitStore, auditOk>>
       ELSE IF userId = a THEN
            /\ last' = reply(400)
            /\ UNCHANGED <<users, tasks, audit, now, logins, loaded, rateLimitStore, auditOk>>
       ELSE IF ~users[userId].exists THEN
            /\ last' = reply(404)
            /\ UNCHANGED <<users, tasks, audit, now, logins, loaded, rateLimitStore, auditOk>>
       ELSE
            /\ users' = pullTeamMember([users EXCEPT ![userId].isActive = FALSE],
                                       users[userId].managerId, userId)
            /\ tasks' = [t \in TaskIds |-> unassign(tasks[t], userId)]
            /\ audit' = logAction(audit, entry)
            /\ last' = reply(200)
            /\ UNCHANGED <<now, logins, loaded, rateLimitStore, auditOk>>
    /\ Bounded

\* PUT /api/users/:id/activate with body {isActive}
ActivateUser(a, userId, isActive) ==
    LET entry == AuditEntry(a, "user_updated", "user", userId, TRUE, "medium",
                            "data", NoDetails)
        reply(code) ==
            Respond("activate_user", a, userId, Bool(isActive), Null, code, {})
    IN
    /\ authenticate(a) = 0
    /\ IF ~authorize(a, {"super_admin"}) THEN
            /\ audit' = logAction(audit, AccessDeniedEntry(a))
            /\ last' = reply(403)
            /\ UNCHANGED <<users, tasks, now, logins, loaded, rateLimitStore, auditOk>>
       ELSE IF ~users[userId].exists THEN
            /\ last' = reply(404)
            /\ UNCHANGED <<users, tasks, audit, now, logins, loaded, rateLimitStore, auditOk>>
       ELSE
            /\ users' = [users EXCEPT ![userId].isActive = isActive]
            /\ audit' = logAction(audit, entry)
            /\ last' = reply(200)
            /\ UNCHANGED <<tasks, now, logins, loaded, rateLimitStore, auditOk>>
    /\ Bounded

-----------------------------------------------------------------------------
(* Reading and updating a user: auth middleware and routes/users.js *)

\* A request to /api/users/:id: the :id segment, the body's assignedTo key
\* and the query's userId key.  The routes declare :id, so req.params has
\* no userId.
UserRequest(id, assignedTo, userId) ==
    [params |-> [id |-> id, userId |-> Undefined],
     body |-> [assignedTo |-> assignedTo], query |-> [userId |-> userId]]

\* a || b || c over values that are undefined or non-empty strings
FirstDefined(a, b, c) ==
    IF a # Undefined THEN a ELSE IF b # Undefined THEN b ELSE c

\* authorizeTeamAccess: 0 when next() is called, else the status it answers
authorizeTeamAccess(a, req) ==
    LET targetUserId ==
            FirstDefined(req.params.userId, req.body.assignedTo, req.query.userId)
    IN  IF users[a].role = "super_admin" THEN 0
        ELSE IF users[a].role = "manager" THEN
            IF targetUserId = Undefined THEN 0
            ELSE IF ~users[targetUserId].exists THEN 404
            ELSE IF users[targetUserId].managerId # a /\ targetUserId # a THEN 403
            ELSE 0
        ELSE IF targetUserId # Undefined /\ targetUserId # a THEN 403
        ELSE 0

\* GET /api/users/:id
GetUser(a, req) ==
    LET access == authorizeTeamAccess(a, req)
        reply(code, result) ==
            Respond("get_user", a, req.params.id, req.body.assignedTo,
                    req.query.userId, code, result)
    IN
    /\ authenticate(a) = 0
    /\ last' = IF access # 0 THEN reply(access, {})
               ELSE IF ~users[req.params.id].exists THEN reply(404, {})
               ELSE reply(200, {req.params.id})
    /\ UNCHANGED <<users, tasks, audit, now, logins, loaded, rateLimitStore, auditOk>>

\* GET /api/users/:id/tasks
GetUserTasks(a, req, status) ==
    LET access == authorizeTeamAccess(a, req)
        found == {t \in TaskIds :
                    /\ tasks[t].exists
                    /\ tasks[t].assignedTo = req.params.id
                    /\ status # Undefined => tasks[t].status = status}
        reply(code, result) ==
            Respond("get_user_tasks", a, req.params.id, req.body.assignedTo,
                    req.query.userId, code, result)
    IN
    /\ authenticate(a) = 0
    /\ last' = IF access # 0 THEN reply(access, {}) ELSE reply(200, found)
    /\ UNCHANGED <<users, tasks, audit, now, logins, loaded, rateLimitStore, auditOk>>

\* Bodies of PUT /api/users/:id, as sets of <<key, value>>; a key that is
\* not a path of userSchema is dropped by $set
UserPayloads ==
    {{<<"name", "n1">>}, {<<"managerId", "M2">>}, {<<"role", "manager">>},
     {<<"isActive", FALSE>>}, {<<"loginAttempts", 0>>},
     {<<"name", "n1">>, <<"role", "manager">>},
     {<<"name", "n1">>, <<"assignedTo", "E1">>}}

\* delete updates.<key>
Without(updates, keys) == {kv \in updates : kv[1] \notin keys}

SensitiveFields == {"password", "loginAttempts", "lockUntil", "twoFactorSecret"}
allowedFields == {"name", "phoneNumber", "notificationSettings"}

\* The manager's restriction with isActive left in the payload
roleRestrictedRoleOnly(a, updates) ==
    IF users[a].role = "manager" THEN Without(updates, {"role"}) ELSE updates

\* Managers cannot change roles or activate/deactivate users
roleRestricted(a, updates) ==
    IF users[a].role = "manager" THEN Without(updates, {"role", "isActive"})
    ELSE updates

\* PUT /api/users/:id
UpdateUser(a, id, body, queryUserId) ==
    LET req == UserRequest(id, IF Has(body, "assignedTo")
                               THEN Value(body, "assignedTo") ELSE Undefined,
                           queryUserId)
        access == authorizeTeamAccess(a, req)
        userId == req.params.id
        stripped == Without(body, SensitiveFields)
        updates == roleRestricted(a, stripped)
        user == [f \in DOMAIN users[userId] |->
                    IF Has(updates, f) THEN Value(updates, f) ELSE users[userId][f]]
        entry == AuditEntry(a, "user_updated", "user", userId, TRUE, "low", "data",
                            NoDetails)
        reply(code) ==
            Respond("update_user", a, userId, Keys(body), req.query.userId, code, {})
    IN
    /\ authenticate(a) = 0
    /\ IF access # 0 THEN
            /\ last' = reply(access)
            /\ UNCHANGED <<users, tasks, audit, now, logins, loaded, rateLimitStore, auditOk>>
       ELSE IF users[a].role = "employee"
               /\ (Keys(stripped) \ allowedFields # {} \/ userId # a) THEN
            /\ last' = reply(403)
            /\ UNCHANGED <<users, tasks, audit, now, logins, loaded, rateLimitStore, auditOk>>
       ELSE IF ~users[userId].exists THEN
            /\ last' = reply(404)
            /\ UNCHANGED <<users, tasks, audit, now, logins, loaded, rateLimitStore, auditOk>>
       ELSE
            /\ users' = [users EXCEPT ![userId] = user]
            /\ audit' = logAction(audit, entry)
            /\ last' = reply(200)
            /\ UNCHANGED <<tasks, now, logins, loaded, rateLimitStore, auditOk>>
    /\ Bounded

\* The Mongo filter GET /api/users builds: or is the $or clause, either
\* the manager's scope, a search over name and email, or absent (Null);
\* the other fields are the query's top-level keys.
ScopeClause(a) == [kind |-> "scope", value |-> a]
SearchClause(term) == [kind |-> "search", value |-> term]
NoClause == [kind |-> "none", value |-> Null]

userQuery(a, f) ==
    LET q1 == [or |-> IF users[a].role = "manager" THEN ScopeClause(a) ELSE NoClause,
               role |-> Undefined, isActive |-> Undefined]
        q2 == IF f.role # Undefined THEN [q1 EXCEPT !.role = f.role] ELSE q1
        q3 == IF f.isActive # Undefined
              THEN [q2 EXCEPT !.isActive = Bool(f.isActive = "true")] ELSE q2
    IN  IF f.search # Undefined THEN [q3 EXCEPT !.or = SearchClause(f.search)] ELSE q3

\* User.find(query); a search term is matched against the name and the
\* address of the user (the terms used are whole names and addresses)
userMatches(id, q) ==
    /\ users[id].exists
    /\ q.or.kind = "scope" => (users[id].managerId = q.or.value \/ id = q.or.value)
    /\ q.or.kind = "search" => (users[id].name = q.or.value \/ id = q.or.value)
    /\ q.role # Undefined => users[id].role = q.role
    /\ q.isActive # Undefined => Bool(users[id].isActive) = q.isActive

UserFilters ==
    [role : {Undefined, "employee"}, isActive : {Undefined, "true"},
     search : {Undefined, "n0"}]

\* GET /api/users
ListUsers(a, f) ==
    LET reply(code, result) ==
            Respond("list_users", a, Null, f.search, f.role, code, result)
    IN
    /\ authenticate(a) = 0
    /\ IF ~authorize(a, {"super_admin", "manager"}) THEN
            /\ audit' = logAction(audit, AccessDeniedEntry(a))
            /\ last' = reply(403, {})
       ELSE
            /\ last' = reply(200, {id \in UserIds : userMatches(id, userQuery(a, f))})
            /\ UNCHANGED audit
    /\ UNCHANGED <<users, tasks, now, logins, loaded, rateLimitStore, auditOk>>
    /\ Bounded

\* $addToSet: { teamMembers: id } on the manager's document
addToTeam(dir, managerId, id) ==
    [dir EXCEPT ![managerId].teamMembers = @ \cup {id}]

\* userData.managerId taken from the body when it carries one
createdManagerIdFromBody(a, role, managerId) ==
    IF managerId # Undefined THEN managerId
    ELSE IF users[a].role = "manager" /\ role = "employee" THEN a
    ELSE Null

\* userData.managerId of POST /api/users: the handler does not read
\* body.managerId; a manager creating an employee becomes its manager
createdManagerId(a, role, managerId) ==
    IF users[a].role = "manager" /\ role = "employee" THEN a ELSE Null

\* POST /api/users; email is the address the new user is stored under,
\* role and managerId are the body's keys
CreateUser(a, email, role, managerId) ==
    LET userData == NewUser(role, createdManagerId(a, role, managerId))
        saved == [users EXCEPT ![email] = userData]
        entry == AuditEntry(a, "user_created", "user", email, TRUE, "low", "data",
                            NoDetails)
        reply(code) == Respond("create_user", a, email, role, managerId, code, {})
    IN
    /\ authenticate(a) = 0
    /\ IF ~authorize(a, {"super_admin", "manager"}) THEN
            /\ audit' = logAction(audit, AccessDeniedEntry(a))
            /\ last' = reply(403)
            /\ UNCHANGED users
       ELSE IF role \notin {"manager", "employee"} THEN
            /\ last' = reply(400)
            /\ UNCHANGED <<users, audit>>
       ELSE IF Registered(email) THEN
            /\ last' = reply(400)
            /\ UNCHANGED <<users, audit>>
       ELSE IF users[a].role = "manager" /\ role # "employee" THEN
            /\ last' = reply(403)
            /\ UNCHANGED <<users, audit>>
       ELSE
            /\ users' = IF userData.managerId # Null
                        THEN addToTeam(saved, userData.managerId, email)
                        ELSE saved
            /\ audit' = logAction(audit, entry)
            /\ last' = reply(201)
    /\ UNCHANGED <<tasks, now, logins, loaded, rateLimitStore, auditOk>>
    /\ Bounded

\* POST /api/auth/register (no authentication); role Undefined: the body
\* has no role key, managerId Undefined: no managerId key
Register(email, role, managerId) ==
    LET r == IF role = Undefined THEN "employee" ELSE role
        user == NewUser(r, IF managerId # Undefined THEN managerId ELSE Null)
        saved == [users EXCEPT ![email] = user]
        entry == AuditEntry(email, "user_created", "user", email, TRUE, "low",
                            "data", NoDetails)
        reply(code) == Respond("register", email, email, role, managerId, code, {})
    IN
    /\ IF r \notin {"super_admin", "manager", "employee"} THEN
            /\ last' = reply(400)
            /\ UNCHANGED <<users, audit>>
       ELSE IF Registered(email) THEN
            /\ last' = reply(400)
            /\ UNCHANGED <<users, audit>>
       ELSE IF managerId # Undefined
               /\ (~users[managerId].exists \/ users[managerId].role # "manager") THEN
            /\ last' = reply(400)
            /\ UNCHANGED <<users, audit>>
       ELSE
            /\ users' = IF managerId # Undefined
                        THEN addToTeam(saved, managerId, email)
                        ELSE saved
            /\ audit' = logAction(audit, entry)
            /\ last' = reply(201)
    /\ UNCHANGED <<tasks, now, logins, loaded, rateLimitStore, auditOk>>
    /\ Bounded

-----------------------------------------------------------------------------
(* Account lockout: User model methods and POST /api/auth/login *)

Passwords == {"right", "wrong"}

\* incLoginAttempts with the lock set only after the threshold is exceeded
incLoginAttemptsLate(user, stored) ==
    IF user.lockUntil # NoDate /\ user.lockUntil < now
    THEN [stored EXCEPT !.lockUntil = NoDate, !.loginAttempts = 1]
    ELSE IF user.loginAttempts >= maxAttempts /\ ~isLocked(user)
         THEN [stored EXCEPT !.loginAttempts = @ + 1,
                             !.lockUntil = now + lockoutTime]
         ELSE [stored EXCEPT !.loginAttempts = @ + 1]

\* userSchema.methods.incLoginAttempts, called on the document `user` the
\* request loaded; the result is the stored document after updateOne
\* ($unset lockUntil / $set loginAttempts, or $inc and the optional $set).
incLoginAttempts(user, stored) ==
    IF user.lockUntil # NoDate /\ user.lockUntil < now
    THEN [stored EXCEPT !.lockUntil = NoDate, !.loginAttempts = 1]
    ELSE IF user.loginAttempts + 1 >= maxAttempts /\ ~isLocked(user)
         THEN [stored EXCEPT !.loginAttempts = @ + 1,
                             !.lockUntil = now + lockoutTime]
         ELSE [stored EXCEPT !.loginAttempts = @ + 1]

\* userSchema.methods.resetLoginAttempts: $unset of both paths, which then
\* read as their defaults
resetLoginAttempts(stored) ==
    [stored EXCEPT !.loginAttempts = 0, !.lockUntil = NoDate]

FailedLoginEntry(user, reason, severity) ==
    AuditEntry(user, "failed_login", "auth", Null, FALSE, severity, "security",
               [NoDetails EXCEPT !.reason = reason])

LoginEntry(user) ==
    AuditEntry(user, "login", "auth", Null, TRUE, "low", "security", NoDetails)

LoginReply(email, password, code) ==
    Respond("login", email, Null, password, Null, code, {})

\* The checks before the password comparison without the lock
loginRefusalNoLock(email) ==
    IF ~Registered(email) THEN 401
    ELSE IF ~users[email].isActive THEN 401
    ELSE 0

\* The checks of POST /login before the password is compared: 0 when the
\* handler goes on, else the status it answers
loginRefusal(email) ==
    IF ~Registered(email) THEN 401
    ELSE IF isLocked(users[email]) THEN 423
    ELSE IF ~users[email].isActive THEN 401
    ELSE 0

\* The answer of POST /login to an unknown, locked or inactive account
LoginRefused(email, password) ==
    LET entry == IF ~Registered(email)
                 THEN FailedLoginEntry(Null, "user_not_found", "medium")
                 ELSE IF isLocked(users[email])
                 THEN FailedLoginEntry(email, "account_locked", "high")
                 ELSE FailedLoginEntry(email, "account_inactive", "medium")
    IN  /\ audit' = logAction(audit, entry)
        /\ last' = LoginReply(email, password, loginRefusal(email))
        /\ UNCHANGED <<users, tasks, loaded, rateLimitStore, now, auditOk>>

\* POST /login from the password comparison on, for the document `user`
\* loaded by User.findOne
LoginVerify(email, user, password) ==
    IF password # "right" THEN
        /\ users' = [users EXCEPT ![email] = incLoginAttempts(user, @)]
        /\ audit' = logAction(audit,
                        FailedLoginEntry(email, "invalid_password", "medium"))
        /\ last' = LoginReply(email, password, 401)
        /\ UNCHANGED <<tasks, loaded, rateLimitStore, now, auditOk>>
    ELSE
        /\ users' = [users EXCEPT ![email] =
                        [(IF user.loginAttempts > 0
                          THEN resetLoginAttempts(users[email])
                          ELSE users[email])
                         EXCEPT !.lastLogin = now]]
        /\ audit' = logAction(audit, LoginEntry(email))
        /\ last' = LoginReply(email, password, 200)
        /\ UNCHANGED <<tasks, loaded, rateLimitStore, now, auditOk>>

LoginBounded == Len(audit') <= MaxLoginAudit

\* POST /api/auth/login served without another request in between
Login(email, password) ==
    /\ IF loginRefusal(email) # 0
       THEN LoginRefused(email, password)
       ELSE LoginVerify(email, users[email], password)
    /\ UNCHANGED logins
    /\ LoginBounded

\* POST /api/auth/login up to the await of comparePassword: the request
\* holds the document it loaded
LoginLoad(email, password) ==
    /\ Len(logins) < MaxInFlight
    /\ IF loginRefusal(email) # 0
       THEN LoginRefused(email, password) /\ UNCHANGED logins
       ELSE /\ logins' = Append(logins, [email |-> email, user |-> users[email],
                                          password |-> password])
            /\ UNCHANGED <<users, tasks, loaded, rateLimitStore, audit, now, auditOk, last>>
    /\ LoginBounded

\* POST /api/auth/login after the await: the i-th request in flight goes on
\* with the document it holds
LoginAnswer(i) ==
    /\ i \in DOMAIN logins
    /\ LoginVerify(logins[i].email, logins[i].user, logins[i].password)
    /\ logins' = SubSeq(logins, 1, i - 1) \o SubSeq(logins, i + 1, Len(logins))
    /\ LoginBounded

\* GET /api/auth/me with the token of user a: the authenticate middleware,
\* then the route
GetMe(a) ==
    LET reply(code, result) == Respond("get_me", a, a, Null, authMessage(a), code, result)
    IN
    /\ IF authenticate(a) = 0 THEN
            /\ last' = reply(200, {a})
            /\ UNCHANGED audit
       ELSE
            /\ last' = reply(authenticate(a), {})
            /\ audit' = IF authMessage(a) = "session_expired"
                        THEN logAction(audit, SessionTimeoutEntry(a))
                        ELSE audit
    /\ UNCHANGED <<users, tasks, now, logins, loaded, rateLimitStore, auditOk>>
    /\ Len(audit') <= MaxLoginAudit

-----------------------------------------------------------------------------
(* Sensitive operations: PUT /api/auth/change-password behind the limiter *)

\* `${req.ip}-${req.user?._id || 'anonymous'}`
RateKey(ip, a) == <<ip, a>>

\* userAttempts.filter(time => now - time < windowMs)
recentAttempts(key) == SelectSeq(rateLimitStore[key], LAMBDA time : now - time < windowMs)

\* The limiter recording the request before it decides
sensitiveOperationLimitEager(key) ==
    [code |-> IF Len(recentAttempts(key)) >= maxSensitive THEN 429 ELSE 0,
     store |-> [rateLimitStore EXCEPT ![key] = Append(recentAttempts(key), now)]]

\* sensitiveOperationLimit: the status it answers (0: next()) and the
\* store it leaves
sensitiveOperationLimit(key) ==
    IF Len(recentAttempts(key)) >= maxSensitive
    THEN [code |-> 429, store |-> rateLimitStore]
    ELSE [code |-> 0,
          store |-> [rateLimitStore EXCEPT ![key] = Append(recentAttempts(key), now)]]

\* PUT /api/auth/change-password from address ip with the token of a and a
\* new password that passes the validators
ChangePassword(ip, a, currentPassword) ==
    LET limit == sensitiveOperationLimit(RateKey(ip, a))
        entry(ok) == AuditEntry(a, "password_change", "auth", Null, ok,
                                IF ok THEN "low" ELSE "medium", "security",
                                [NoDetails EXCEPT !.reason =
                                    IF ok THEN Null ELSE "invalid_current_password"])
        reply(code) == Respond("change_password", a, ip, currentPassword, Null, code, {})
    IN
    /\ authenticate(a) = 0
    /\ rateLimitStore' = limit.store
    /\ IF limit.code # 0 THEN
            /\ last' = reply(limit.code)
            /\ UNCHANGED audit
       ELSE IF currentPassword # "right" THEN
            /\ audit' = logAction(audit, entry(FALSE))
            /\ last' = reply(400)
       ELSE
            /\ audit' = logAction(audit, entry(TRUE))
            /\ last' = reply(200)
    /\ UNCHANGED <<users, tasks, now, logins, loaded, auditOk>>
    /\ Len(audit') <= MaxAdmitted

-----------------------------------------------------------------------------
(* Audit retention: DELETE /api/audit/logs/cleanup *)

\* days * 24 * 60 * 60 * 1000 in clock ticks
DaysToTicks(days) == days * TicksPerDay

\* The days validator without its minimum
ValidDaysNoMinimum(days) == days = NoDate \/ days <= maxDays

\* query('days').optional().isInt({ min: 30, max: 365 })
\* (NoDate: the query has no days key)
ValidDays(days) == days = NoDate \/ (days >= minDays /\ days <= maxDays)

\* deleteMany without the severity clause
retainedRecent(log, cutoffDate) ==
    SelectSeq(log, LAMBDA e : ~(e.createdAt < cutoffDate))

\* What AuditLog.deleteMany({createdAt: {$lt: cutoffDate}, severity: {$nin:
\* ['high', 'critical']}}) leaves of the collection
retained(log, cutoffDate) ==
    SelectSeq(log, LAMBDA e : ~(/\ e.createdAt < cutoffDate
                                /\ e.severity \notin {"high", "critical"}))

\* DELETE /api/audit/logs/cleanup
CleanupAuditLogs(a, days) ==
    LET d == IF days = NoDate THEN defaultDays ELSE days
        cutoffDate == now - DaysToTicks(d)
        kept == retained(audit, cutoffDate)
        entry == AuditEntry(a, "data_export", "system", Null, TRUE, "medium",
                            "system", NoDetails)
        reply(code, deleted) ==
            Respond("cleanup_audit", a, Null, days, deleted, code, {})
    IN
    /\ authenticate(a) = 0
    /\ IF ~authorize(a, {"super_admin"}) THEN
            /\ audit' = logAction(audit, AccessDeniedEntry(a))
            /\ last' = reply(403, 0)
       ELSE IF ~ValidDays(days) THEN
            /\ last' = reply(400, 0)
            /\ UNCHANGED audit
       ELSE
            /\ audit' = logAction(kept, entry)
            /\ last' = reply(200, Len(audit) - Len(kept))
    /\ UNCHANGED <<users, tasks, now, logins, loaded, rateLimitStore, auditOk>>
    /\ Bounded

\* The AuditLog collection stops or resumes accepting writes
AuditStore(up) ==
    /\ auditOk' = up
    /\ auditOk # up
    /\ UNCHANGED <<users, tasks, audit, now, logins, loaded, rateLimitStore, last>>

\* A month without requests
Elapse ==
    /\ now + DaysToTicks(minDays) <= MaxMonths * DaysToTicks(minDays)
    /\ now' = now + DaysToTicks(minDays)
    /\ UNCHANGED <<users, tasks, audit, logins, loaded, rateLimitStore, auditOk, last>>

\* Time passes
Tick ==
    /\ now < MaxClock
    /\ now' = now + 1
    /\ UNCHANGED <<users, tasks, audit, logins, loaded, rateLimitStore, auditOk, last>>

-----------------------------------------------------------------------------
(* The task workflow: one task, created, moved through its statuses and
   read by any caller, while the super admin may deactivate users *)

Init ==
    /\ users = Directory
    /\ tasks = [t \in TaskIds |-> NoTask]
    /\ audit = <<>>
    /\ now = 0
    /\ logins = <<>>
    /\ loaded = <<>>
    /\ rateLimitStore = [k \in RateKeys |-> <<>>]
    /\ auditOk = TRUE
    /\ last = NoRequest

Reasons(s) == IF s = "rejected" THEN {Undefined, "r1"} ELSE {Undefined}

Next ==
    \/ \E a \in UserIds, d \in {now, now + 1}, o \in NotifyOutcomes :
            CreateTask(a, "t1", "E1", d, Undefined, o)
    \/ \E a \in UserIds, s \in Statuses, o \in NotifyOutcomes :
            \E r \in Reasons(s) : TransitionTask(a, "t1", s, r, o)
    \/ \E a \in UserIds : ReadTask(a, "t1")
    \/ \E a \in {"A", "M2"} : DeactivateUser(a, "E1")

Spec == Init /\ [][Next]_vars

-----------------------------------------------------------------------------
(* Properties of the status handler *)

\* A step that serves a request of the given kind (the clock stands still
\* while a handler runs)
Served(op) == last'.op = op /\ now' = now

\* The audit entries a step appends
Appended == SubSeq(audit', Len(audit) + 1, Len(audit'))

Count(seq, P(_)) == Cardinality({i \in DOMAIN seq : P(seq[i])})

\* The transition table of the workflow
Edges ==
    {<<"pending", "in_progress">>, <<"in_progress", "completed">>,
     <<"completed", "approved">>, <<"completed", "rejected">>,
     <<"pending", "pending">>, <<"in_progress", "pending">>,
     <<"completed", "pending">>}

\* The manager owning the task's assignee
OwningManager(task, u) ==
    /\ task.assignedTo # Null
    /\ users[u].role = "manager"
    /\ users[task.assignedTo].managerId = u

\* The allowed-actor set of the workflow, by target status
AllowedActor(task, u, status) ==
    IF status \in {"in_progress", "completed"} THEN task.assignedTo = u
    ELSE IF status \in {"approved", "rejected"} THEN
        users[u].role = "super_admin" \/ task.assignedBy = u \/ OwningManager(task, u)
    ELSE
        \/ users[u].role = "super_admin" \/ task.assignedBy = u
        \/ task.assignedTo = u \/ OwningManager(task, u)

\* A status request on an existing task that has an assignee
StatusRequest(t) ==
    /\ Served("transition") /\ last'.target = t
    /\ tasks[t].exists /\ tasks[t].assignedTo # Null

\* C1: a status request changes the task only along an edge of the
\* transition table and for an allowed actor; for every other pair of
\* current and requested status it is rejected and the task is unchanged.
C1_TransitionTable ==
    [][\A t \in TaskIds : StatusRequest(t) =>
          IF <<tasks[t].status, last'.arg>> \in Edges
             /\ AllowedActor(tasks[t], last'.actor, last'.arg)
          THEN TRUE
          ELSE last'.code # 200 /\ tasks'[t] = tasks[t]]_vars

C3_ApproverSet ==
    [][\A t \in TaskIds :
          (StatusRequest(t) /\ last'.arg \in {"approved", "rejected"}) =>
             IF AllowedActor(tasks[t], last'.actor, last'.arg)
             THEN last'.code = 200
             ELSE last'.code = 403]_vars

\* An audit entry of a status change of task t made by user u
IsStatusEntry(e, t, u) == e.resource = "task" /\ e.resourceId = t /\ e.user = u

\* C9: every status request answered 200 appends exactly one audit entry
\* for the task with the caller as its user.
C9_OneAuditEntryPerTransition ==
    [][\A t \in TaskIds :
          (Served("transition") /\ last'.target = t /\ last'.code = 200) =>
             Count(Appended, LAMBDA e : IsStatusEntry(e, t, last'.actor)) = 1]_vars

\* The audit entry of a refused request
IsDenialEntry(e, u) ==
    /\ e.user = u /\ e.category = "security" /\ e.severity = "medium"
    /\ ~e.success /\ e.details.userRole = users[u].role

\* A request refused by authorize(), or by the relationship check of the
\* status, update or read handler of a task or of the user update
Denied ==
    /\ now' = now /\ last'.code = 403
    /\ \/ last'.op \in {"transition", "update_task", "read_task", "update_user"}
       \/ /\ last'.op \in {"create_task", "archive_task"}
          /\ ~authorize(last'.actor, {"super_admin", "manager"})
       \/ /\ last'.op = "deactivate_user"
          /\ ~authorize(last'.actor, {"super_admin"})

\* C10: every request answered 403 appends exactly one security entry of
\* medium severity, success false, that records the caller's role.
C10_DenialIsAudited ==
    [][Denied => Count(Appended, LAMBDA e : IsDenialEntry(e, last'.actor)) = 1]_vars

-----------------------------------------------------------------------------
(* Field-level updates: one task, created, edited through PUT /:id and moved
   through its statuses, while time passes *)

NextEdit ==
    \/ \E a \in {"A", "M1"}, o \in NotifyOutcomes :
            CreateTask(a, "t1", "E1", now + 1, Undefined, o)
    \/ \E a \in {"A", "M1", "E1"}, u \in UpdatePayloads : UpdateTask(a, "t1", u)
    \/ \E a \in {"A", "E1"}, s \in Statuses, o \in NotifyOutcomes :
            \E r \in Reasons(s) : TransitionTask(a, "t1", s, r, o)
    \/ Tick

SpecEdit == Init /\ [][NextEdit]_vars

\* C4: a field-level update leaves the task's status, statusHistory,
\* completedAt, approvedAt and approvedBy as they were, whatever the body
\* holds and whoever the caller is.
C4_UpdateKeepsWorkflowFields ==
    [][\A t \in TaskIds : (Served("update_task") /\ last'.target = t) =>
          /\ tasks'[t].status = tasks[t].status
          /\ tasks'[t].statusHistory = tasks[t].statusHistory
          /\ tasks'[t].completedAt = tasks[t].completedAt
          /\ tasks'[t].approvedAt = tasks[t].approvedAt
          /\ tasks'[t].approvedBy = tasks[t].approvedBy]_vars

-----------------------------------------------------------------------------
(* Listing: two tasks, created for employees of either team and started by
   their assignees, listed by any caller with any filters, while time
   passes *)

NextList ==
    \/ \E a \in {"A", "M1"}, t \in TaskIds, to \in {"E1", "E2"},
          p \in {Undefined, "high"} :
            CreateTask(a, t, to, 1, p, "none")
    \/ \E a \in {"E1", "E2"}, t \in TaskIds :
            TransitionTask(a, t, "in_progress", Undefined, "none")
    \/ \E a \in {"M1", "E1", "E2"}, f \in TaskFilters : ListTasks(a, f)
    \/ Tick

SpecList == Init /\ [][NextList]_vars

\* C5: whatever the filters, the tasks GET /api/tasks returns to an
\* employee are tasks assigned to that employee.
C5_EmployeeListsOwnTasks ==
    [][(Served("list_tasks") /\ users[last'.actor].role = "employee") =>
          \A t \in last'.result : tasks[t].assignedTo = last'.actor]_vars

-----------------------------------------------------------------------------
(* The user directory: records read and updated by every role, and the
   tasks of a user listed *)

NextUsers ==
    \/ \E to \in {"E1", "E2"} : CreateTask("A", "t1", to, 1, Undefined, "none")
    \/ \E a \in {"A", "M1", "E1"}, id \in {"M1", "E1", "E2"}, q \in {Undefined, "E1"} :
            GetUser(a, UserRequest(id, Undefined, q))
    \/ \E a \in {"M1", "E1"}, id \in {"E1", "E2"}, q \in {Undefined, "E2"} :
            GetUserTasks(a, UserRequest(id, Undefined, q), Undefined)
    \/ \E a \in {"A", "M1", "E1"}, id \in {"E1", "E2"}, body \in UserPayloads :
            UpdateUser(a, id, body, Undefined)
    \/ \E a \in {"A", "M1", "E1"}, f \in UserFilters : ListUsers(a, f)

SpecUsers == Init /\ [][NextUsers]_vars

UserOps == {"get_user", "get_user_tasks", "update_user"}

\* X is the caller or, for a manager, a member of the caller's team
InScope(a, x) ==
    \/ x = a
    \/ users[a].role = "manager" /\ users[x].managerId = a

\* C6: a Manager or an Employee reading or updating a user record outside
\* their scope (GET/PUT /api/users/:id, GET /api/users/:id/tasks) is
\* answered 403, gets nothing of the record back and leaves it unchanged.
C6_UserScope ==
    [][(/\ last'.op \in UserOps
        /\ now' = now
        /\ users[last'.actor].role \in {"manager", "employee"}
        /\ ~InScope(last'.actor, last'.target))
          => /\ last'.code = 403
             /\ last'.result = {}
             /\ users'[last'.target] = users[last'.target]]_vars

-----------------------------------------------------------------------------
(* Account lockout, one login request at a time: E1 and an unknown address
   log in with a right or a wrong password while time passes, and the super
   admin may deactivate E1 *)

NextLogin ==
    \/ \E email \in {"E1", "nobody"}, password \in Passwords : Login(email, password)
    \/ DeactivateUser("A", "E1")
    \/ Tick

SpecLogin == Init /\ [][NextLogin]_vars

IsWrongPassword(e, u) ==
    e.user = u /\ e.action = "failed_login" /\ e.details.reason = "invalid_password"

\* The log ends with k wrong-password logins of u in a row that follow a
\* successful login of u or the empty log: k consecutive failures counted
\* from loginAttempts = 0 on an unlocked account
FailedRun(log, u, k) ==
    /\ Len(log) >= k
    /\ \A i \in (Len(log) - k + 1)..Len(log) : IsWrongPassword(log[i], u)
    /\ Len(log) > k => /\ log[Len(log) - k].user = u
                       /\ log[Len(log) - k].action = "login"

LoginServed(u) == Served("login") /\ last'.actor = u

\* C7: the 5th consecutive wrong-password login of an unlocked user with no
\* failed attempts locks the account for lockoutTime; every login before
\* lockUntil then answers 423 and changes nothing, whatever the password;
\* once lockUntil has passed, a login with the right password answers 200
\* and leaves loginAttempts at 0 with lockUntil cleared.
C7_LockoutAndReset ==
    [][\A u \in {"E1"} :
        /\ (LoginServed(u) /\ FailedRun(audit, u, maxAttempts - 1)
                /\ FailedRun(audit', u, maxAttempts))
              => /\ users'[u].loginAttempts = maxAttempts
                 /\ users'[u].lockUntil = now + lockoutTime
        /\ (LoginServed(u) /\ FailedRun(audit, u, maxAttempts)
                /\ now < users[u].lockUntil)
              => /\ last'.code = 423
                 /\ users' = users
        /\ (LoginServed(u) /\ last'.arg = "right" /\ users[u].isActive
                /\ users[u].lockUntil # NoDate /\ users[u].lockUntil <= now)
              => /\ last'.code = 200
                 /\ users'[u].loginAttempts = 0
                 /\ users'[u].lockUntil = NoDate]_vars

\* Five wrong passwords, a right one refused while locked, and after the
\* lock has expired a right one accepted with the counter back at 0
C7_Witness ==
    /\ Len(audit) = maxAttempts + 2
    /\ \A i \in 1..maxAttempts : IsWrongPassword(audit[i], "E1")
    /\ audit[maxAttempts + 1].details.reason = "account_locked"
    /\ audit[maxAttempts + 2].action = "login"
    /\ last.op = "login" /\ last.arg = "right" /\ last.code = 200
    /\ users["E1"].loginAttempts = 0
    /\ users["E1"].lockUntil = NoDate

-----------------------------------------------------------------------------
(* Account lockout with login requests of E1 overlapping: each request
   loads the user, awaits the password comparison, then writes *)

NextLoginConc ==
    \/ \E password \in Passwords : LoginLoad("E1", password)
    \/ \E i \in 1..MaxInFlight : LoginAnswer(i)
    \/ Tick

SpecLoginConc == Init /\ [][NextLoginConc]_vars

\* C8: with failed password checks of one user overlapping, the counter
\* never passes the threshold and an account whose counter has reached the
\* threshold has lockUntil set.
C8_ConcurrentFailuresLock ==
    \A u \in UserIds :
        /\ users[u].loginAttempts <= maxAttempts
        /\ users[u].loginAttempts >= maxAttempts => users[u].lockUntil # NoDate

-----------------------------------------------------------------------------
(* The audit log under retention: entries of every severity are written
   by the task and user handlers, months pass, and the cleanup is called by
   the super admin and by a manager *)

NextAudit ==
    \/ \E a \in {"A", "M1"}, o \in {"none", "sent"} :
            CreateTask(a, "t1", "E1", now + 1, Undefined, o)
    \/ \E a \in {"A", "E1"}, s \in {"completed", "approved"} :
            TransitionTask(a, "t1", s, Undefined, "none")
    \/ \E a \in {"A", "M1"} : DeactivateUser(a, "E2")
    \/ \E a \in {"A", "M1"}, days \in {NoDate, minDays, minDays - 1} :
            CleanupAuditLogs(a, days)
    \/ Elapse

SpecAudit == Init /\ [][NextAudit]_vars

IsPrefix(s, t) == Len(s) <= Len(t) /\ SubSeq(t, 1, Len(s)) = s

Protected(log) == SelectSeq(log, LAMBDA e : e.severity \in {"high", "critical"})

\* C11: every request other than the retention cleanup leaves the existing
\* audit entries in place and unmodified (it can only append), and the
\* cleanup keeps every entry of severity high or critical.
C11_AuditAppendOnly ==
    [][/\ Served("cleanup_audit") => IsPrefix(Protected(audit), Protected(audit'))
       /\ ~Served("cleanup_audit") => IsPrefix(audit, audit')]_vars

\* A cleanup that deleted an old entry and kept an equally old entry of
\* severity high
C11_Witness ==
    /\ last.op = "cleanup_audit" /\ last.code = 200 /\ last.extra >= 1
    /\ \E i \in DOMAIN audit :
          /\ audit[i].severity = "high"
          /\ audit[i].createdAt < now - DaysToTicks(minDays)

-----------------------------------------------------------------------------
(* The state-changing handlers while the AuditLog collection goes down and
   comes back: requests that the handlers accept are served in both
   conditions *)

NextAuditFail ==
    \/ \E up \in BOOLEAN : AuditStore(up)
    \/ CreateTask("A", "t1", "E1", now + 1, Undefined, "none")
    \/ TransitionTask("E1", "t1", "in_progress", Undefined, "none")
    \/ UpdateTask("A", "t1", {<<"title", "v1">>})
    \/ CreateUser("M1", "N1", "employee", Undefined)
    \/ UpdateUser("A", "E1", {<<"name", "n1">>}, Undefined)
    \/ DeactivateUser("A", "E2")
    \/ \E password \in Passwords :
            Login("E1", password) /\ Len(audit') <= MaxAudit

SpecAuditFail == Init /\ [][NextAuditFail]_vars

\* C12: with the audit store refusing writes, each state-changing request
\* the handler accepts is answered as with the store up and commits its
\* primary change; only the audit entry is missing.
C12_AuditFailureIsolated ==
    [][(~auditOk /\ now' = now /\ auditOk' = auditOk) =>
        /\ audit' = audit
        /\ (last'.op = "create_task" /\ ~tasks["t1"].exists)
              => last'.code = 201 /\ tasks'["t1"].exists
        /\ (last'.op = "transition" /\ tasks["t1"].exists)
              => last'.code = 200 /\ tasks'["t1"].status = last'.arg
        /\ (last'.op = "update_task" /\ tasks["t1"].exists)
              => last'.code = 200 /\ tasks'["t1"].title = "v1"
        /\ (last'.op = "create_user" /\ ~users["N1"].exists)
              => last'.code = 201 /\ users'["N1"].exists
        /\ last'.op = "update_user"
              => last'.code = 200 /\ users'[last'.target].name = "n1"
        /\ last'.op = "deactivate_user"
              => last'.code = 200 /\ ~users'["E2"].isActive
        /\ (last'.op = "login" /\ last'.arg = "wrong" /\ ~isLocked(users["E1"]))
              => /\ last'.code = 401
                 /\ users'["E1"].loginAttempts = users["E1"].loginAttempts + 1
        /\ (last'.op = "login" /\ last'.arg = "right" /\ ~isLocked(users["E1"]))
              => last'.code = 200 /\ users'["E1"].lastLogin = now]_vars

\* Every kind of request has been committed with the store down: the task
\* and the user exist and were edited, E2 is deactivated, E1 has logged in,
\* and the log is empty
C12_Witness ==
    /\ ~auditOk /\ audit = <<>>
    /\ tasks["t1"].status = "in_progress" /\ tasks["t1"].title = "v1"
    /\ users["N1"].exists /\ users["E1"].name = "n1"
    /\ ~users["E2"].isActive
    /\ users["E1"].lastLogin # NoDate

-----------------------------------------------------------------------------
(* Timestamps, history and rejection reason of a task *)

\* One task moved through its statuses again and again while time passes;
\* the audit store may be down, so that the length of the log does not end
\* the run
NextStamps ==
    \/ \E up \in BOOLEAN : AuditStore(up)
    \/ CreateTask("A", "t1", "E1", now + 1, Undefined, "none")
    \/ \E a \in {"A", "E1"}, s \in Statuses :
            TransitionTask(a, "t1", s, Undefined, "none")
    \/ Tick

SpecStamps == Init /\ [][NextStamps]_vars

\* C13: once completedAt or approvedAt holds a timestamp, no later status
\* request changes it, a second entry into completed or approved included.
C13_TimestampsSetOnce ==
    [][\A t \in TaskIds : (Served("transition") /\ last'.target = t) =>
          /\ tasks[t].completedAt # NoDate =>
                tasks'[t].completedAt = tasks[t].completedAt
          /\ tasks[t].approvedAt # NoDate =>
                tasks'[t].approvedAt = tasks[t].approvedAt]_vars

\* C14: a status request answered 200 appends exactly one entry to the
\* task's statusHistory, holding the requested status and the caller, and
\* leaves the earlier entries as they were.
C14_HistoryGrowsByOne ==
    [][\A t \in TaskIds :
          (Served("transition") /\ last'.target = t /\ last'.code = 200) =>
             tasks'[t].statusHistory =
                Append(tasks[t].statusHistory,
                       [status |-> last'.arg, changedBy |-> last'.actor])]_vars

\* C15: a request for rejected without a rejectionReason is answered 400
\* and changes nothing; with a reason, on a completed task and from an
\* allowed actor, it is answered 200 and stores the reason.
C15_RejectionNeedsReason ==
    [][\A t \in TaskIds : (StatusRequest(t) /\ last'.arg = "rejected") =>
          IF last'.extra = Undefined
          THEN last'.code = 400 /\ tasks'[t] = tasks[t]
          ELSE (/\ tasks[t].status = "completed"
                /\ AllowedActor(tasks[t], last'.actor, "rejected"))
                  => /\ last'.code = 200
                     /\ tasks'[t].rejectionReason = last'.extra]_vars

-----------------------------------------------------------------------------
(* The user directory: listing, creation and the manager reference *)

\* C16: the users GET /api/users returns to a manager are the manager and
\* the members of the manager's team, whatever filters the query carries.
C16_ManagerListsOwnTeam ==
    [][(Served("list_users") /\ users[last'.actor].role = "manager") =>
          \A id \in last'.result : InScope(last'.actor, id)]_vars

\* Bodies of PUT /api/users/:id that touch the role, the activity flag and
\* the manager reference
DirectoryPayloads ==
    {{<<"name", "n1">>, <<"role", "manager">>, <<"isActive", FALSE>>},
     {<<"role", "super_admin">>}, {<<"isActive", FALSE>>},
     {<<"managerId", "E2">>}, {<<"managerId", "M2">>}}

\* N1 is registered or created, users are updated by the super admin and
\* by a manager, and the super admin deactivates users
NextDirectory ==
    \/ \E role \in {Undefined, "manager"}, managerId \in {Undefined, "M1", "E1"} :
            Register("N1", role, managerId)
    \/ \E a \in {"A", "M1", "E1"}, role \in {"employee", "manager", "super_admin"},
          managerId \in {Undefined, "M2"} :
            CreateUser(a, "N1", role, managerId)
    \/ \E a \in {"A", "M1"}, id \in {"E1", "N1"}, body \in DirectoryPayloads :
            UpdateUser(a, id, body, Undefined)
    \/ \E id \in {"M1", "E1"} : DeactivateUser("A", id)

SpecDirectory == Init /\ [][NextDirectory]_vars

\* C17: the managerId of every user is null or names an existing user
\* whose role is manager.
C17_ManagerReference ==
    \A u \in UserIds :
        (users[u].exists /\ users[u].managerId # Null) =>
            /\ users[users[u].managerId].exists
            /\ users[users[u].managerId].role = "manager"

ManagerCreates == Served("create_user") /\ users[last'.actor].role = "manager"

\* The new user is stored under the creating manager, in its team
CreatedUnderActor ==
    /\ last'.code = 201
    /\ users'[last'.target].exists
    /\ users'[last'.target].role = "employee"
    /\ users'[last'.target].managerId = last'.actor
    /\ last'.target \in users'[last'.actor].teamMembers

\* C18 as stated: a Manager's CreateUser with a role other than employee
\* is answered 403 and creates no user; with role employee and an unused
\* email it creates the user under the creating Manager, in its team,
\* whatever managerId the body carries.
C18_ManagerCreatesOnlyEmployees ==
    [][ManagerCreates =>
          IF last'.arg # "employee"
          THEN last'.code = 403 /\ users' = users
          ELSE ~Registered(last'.target) => CreatedUnderActor]_vars

\* C18: a Manager's CreateUser with a role other than employee is rejected
\* and creates no user, with 403 when the role is manager and the email
\* unused, with 400 when the role is not one the route accepts or the
\* email is taken; with role employee and an unused email it creates the
\* user under the creating Manager, in its team, whatever managerId the
\* body carries.
C18_ManagerCreatesOnlyEmployeesOrInvalid ==
    [][ManagerCreates =>
          IF last'.arg # "employee"
          THEN /\ users' = users
               /\ last'.code = IF last'.arg = "manager" /\ ~Registered(last'.target)
                               THEN 403 ELSE 400
          ELSE ~Registered(last'.target) => CreatedUnderActor]_vars

\* M1 has created N1 as an employee with managerId M2 in the body
C18_Witness ==
    /\ last.op = "create_user" /\ last.actor = "M1" /\ last.code = 201
    /\ last.arg = "employee" /\ last.extra = "M2"
    /\ users["N1"].exists /\ users["N1"].managerId = "M1"
    /\ "N1" \in users["M1"].teamMembers

\* C19: an UpdateUser by a Manager leaves the target's role and isActive as
\* they were; on a user of the Manager's scope a body carrying the two
\* fields is answered 200 and its other fields are applied.
C19_ManagerCannotChangeRole ==
    [][(Served("update_user") /\ users[last'.actor].role = "manager") =>
          LET id == last'.target
          IN  /\ users'[id].role = users[id].role
              /\ users'[id].isActive = users[id].isActive
              /\ (users[id].exists /\ InScope(last'.actor, id)) =>
                    /\ last'.code = 200
                    /\ "name" \in last'.arg => users'[id].name = "n1"
                    /\ "managerId" \in last'.arg =>
                            users'[id].managerId \in {"E2", "M2"}]_vars

\* M1 has sent name, role and isActive for E1: the name is applied, the
\* role and the flag are as before
C19_Witness ==
    /\ last.op = "update_user" /\ last.actor = "M1" /\ last.target = "E1"
    /\ last.arg = {"name", "role", "isActive"} /\ last.code = 200
    /\ users["E1"].name = "n1"
    /\ users["E1"].role = "employee"
    /\ users["E1"].isActive

-----------------------------------------------------------------------------
(* Logins against a locked account *)

\* C20: a login for a user whose lockUntil is in the future is answered 423
\* without the password being compared, whatever the password, and leaves
\* the user's loginAttempts and lockUntil as they were.
C20_LockedLoginRefused ==
    [][\A u \in UserIds :
        (LoginServed(u) /\ users[u].exists /\ isLocked(users[u])) =>
            /\ last'.code = 423
            /\ users'[u].loginAttempts = users[u].loginAttempts
            /\ users'[u].lockUntil = users[u].lockUntil
            /\ \A i \in DOMAIN Appended :
                    Appended[i].details.reason = "account_locked"]_vars

\* The locked account has refused two logins in a row, the last one with
\* the right password, and its counter and lock are as the fifth failure
\* left them
C20_Witness ==
    /\ Len(audit) = maxAttempts + 2
    /\ audit[maxAttempts + 1].details.reason = "account_locked"
    /\ audit[maxAttempts + 2].details.reason = "account_locked"
    /\ last.op = "login" /\ last.arg = "right" /\ last.code = 423
    /\ users["E1"].loginAttempts = maxAttempts
    /\ isLocked(users["E1"])

-----------------------------------------------------------------------------
(* The session timeout: users log in, send authenticated requests and
   update user records while the clock advances *)

NextSession ==
    \/ \E email \in {"M1", "E1"}, password \in Passwords :
            Login(email, password) /\ Len(audit') <= MaxAudit
    \/ \E a \in {"M1", "E1"} : GetMe(a) /\ Len(audit') <= MaxAudit
    \/ \E a \in {"A", "M1"}, id \in {"M1", "E1"},
          body \in {{<<"name", "n1">>}, {<<"lastLogin", MaxClock>>}} :
            UpdateUser(a, id, body, Undefined)
    \/ Tick

SpecSession == Init /\ [][NextSession]_vars

\* C21: an authenticated request of a user that is active and not locked
\* is answered SessionExpired exactly when more than sessionTimeout has
\* passed since the user's lastLogin, and lastLogin is changed by nothing
\* but a successful login of that user.
C21_AbsoluteSessionTimeout ==
    [][\A u \in UserIds :
        /\ (Served("get_me") /\ last'.actor = u /\ users[u].exists
                /\ users[u].isActive /\ ~isLocked(users[u])
                /\ users[u].lastLogin # NoDate)
              => (last'.extra = "session_expired" /\ last'.code = 401)
                    <=> now - users[u].lastLogin > sessionTimeout
        /\ users'[u].lastLogin # users[u].lastLogin
              => LoginServed(u) /\ last'.code = 200]_vars

\* C22: a login with an email that matches no user is answered 401 and
\* appends exactly one failed_login entry whose user is null.
C22_UnknownEmailIsAudited ==
    [][(Served("login") /\ ~Registered(last'.actor)) =>
          /\ last'.code = 401
          /\ Len(Appended) = 1
          /\ Appended[1].action = "failed_login"
          /\ Appended[1].user = Null]_vars

\* C23: a field-level update by the employee the task is assigned to is
\* answered 200 and applied when the body holds only actualHours, and is
\* answered 403 with the task unchanged when it holds any other field.
C23_AssigneeUpdatesActualHours ==
    [][\A t \in TaskIds :
        (Served("update_task") /\ last'.target = t /\ tasks[t].exists
            /\ users[last'.actor].role = "employee"
            /\ tasks[t].assignedTo = last'.actor /\ last'.arg # {}) =>
          IF last'.arg = {"actualHours"}
          THEN last'.code = 200 /\ tasks'[t].actualHours = 1
          ELSE last'.code = 403 /\ tasks' = tasks]_vars

-----------------------------------------------------------------------------
(* Status requests on one task overlapping: each request loads the task,
   awaits updateStatus, then saves *)

NextRace ==
    \/ CreateTask("A", "t1", "E1", now + 1, Undefined, "none")
    \/ \E a \in {"A", "E1"}, s \in Statuses : TransitionLoad(a, "t1", s, Undefined)
    \/ \E i \in 1..MaxInFlight : TransitionSave(i, "none")

SpecRace == Init /\ [][NextRace]_vars

\* Two requests in flight hold the same loaded task, or the one left holds
\* a task that has been saved since it was loaded
Overlapping ==
    \/ Len(loaded) = 2 /\ loaded[1].task = loaded[2].task
            /\ loaded[1].doc = loaded[2].doc
    \/ Len(loaded) = 1 /\ loaded[1].doc # tasks[loaded[1].task]

\* C24: of two status requests that loaded the task in the same state
\* before either saved, each is answered 200 when it saves, adds exactly
\* one entry (its target, its caller) to the stored statusHistory, keeping
\* the entry the other one saved, and leaves the task in its target status.
C24_OverlappingTransitionsBothRecorded ==
    [][\A t \in TaskIds :
        (Served("transition") /\ last'.target = t /\ Len(loaded') < Len(loaded)
            /\ Overlapping) =>
            /\ last'.code = 200
            /\ tasks'[t].status = last'.arg
            /\ tasks'[t].statusHistory =
                    Append(tasks[t].statusHistory,
                           [status |-> last'.arg, changedBy |-> last'.actor])]_vars

-----------------------------------------------------------------------------
(* Workflow notifications *)

\* The user the claim names as the counterpart of a status change
Counterpart(task, status) ==
    IF status \in {"in_progress", "completed"} THEN task.assignedBy
    ELSE task.assignedTo

-----------------------------------------------------------------------------
(* The retention cleanup *)

\* An entry the cleanup with retention d days is to delete
Expired(e, d) ==
    /\ e.createdAt < now - d * TicksPerDay
    /\ e.severity \notin {"high", "critical"}

\* C26: a cleanup by the super admin with retention d days (30 to 365)
\* deletes exactly the entries older than now minus d days whose severity
\* is neither high nor critical and appends exactly one entry, by the
\* caller, for the cleanup; with d below 30 it is answered 400 and the
\* log is as it was.
C26_CleanupDeletesExpiredOnly ==
    [][(Served("cleanup_audit") /\ users[last'.actor].role = "super_admin"
            /\ last'.arg # NoDate) =>
          LET d == last'.arg
              kept == SelectSeq(audit, LAMBDA e : ~Expired(e, d))
          IN  IF d < minDays
              THEN last'.code = 400 /\ audit' = audit
              ELSE /\ last'.code = 200
                   /\ Len(audit') = Len(kept) + 1
                   /\ SubSeq(audit', 1, Len(kept)) = kept
                   /\ audit'[Len(audit')].user = last'.actor
                   /\ audit'[Len(audit')].resource = "system"
                   /\ audit'[Len(audit')].createdAt = now
                   /\ last'.extra = Len(audit) - Len(kept)]_vars

\* A cleanup with the shortest retention has deleted an entry and logged
\* itself: the log ends with the super admin's entry and holds nothing
\* that has expired
C26_Witness ==
    /\ last.op = "cleanup_audit" /\ last.code = 200
    /\ last.arg = minDays /\ last.extra >= 1
    /\ Len(audit) >= 1
    /\ audit[Len(audit)].action = "data_export"
    /\ audit[Len(audit)].user = "A"
    /\ audit[Len(audit)].createdAt = now
    /\ \A i \in DOMAIN audit : ~Expired(audit[i], minDays)

-----------------------------------------------------------------------------
(* The limiter of sensitive operations: password changes of E1 from two
   addresses and of E2, who mistypes the current password, from one of
   them, on a clock of 5-minute ticks *)

NextLimit ==
    \/ \E ip \in {"ip1", "ip2"} : ChangePassword(ip, "E1", "right")
    \/ ChangePassword("ip1", "E2", "wrong")
    \/ Tick

SpecLimit == Init /\ [][NextLimit]_vars

\* The times, among those stored for key k, that lie less than the window
\* before now
InWindow(k) == {i \in DOMAIN rateLimitStore[k] : now - rateLimitStore[k][i] < windowMs}

\* C27: a sensitive request is answered 429 exactly when maxSensitive
\* admitted requests of its key lie less than the window before it; a
\* refused request leaves the store as it was, an admitted one adds its
\* time to its key's list, and no request changes the list of another key.
C27_SlidingWindowPerKey ==
    [][Served("change_password") =>
          LET k == RateKey(last'.target, last'.actor)
          IN  /\ last'.code = 429 <=> Cardinality(InWindow(k)) >= maxSensitive
              /\ last'.code = 429 => rateLimitStore' = rateLimitStore
              /\ last'.code # 429 =>
                    /\ Len(rateLimitStore'[k]) = Cardinality(InWindow(k)) + 1
                    /\ rateLimitStore'[k][Len(rateLimitStore'[k])] = now
              /\ \A other \in RateKeys \ {k} :
                    rateLimitStore'[other] = rateLimitStore[other]]_vars

\* E1 has been refused from ip1 with maxSensitive admitted requests in the
\* window, the first of them made at an earlier time, while E2 has one
\* request recorded under its own key
C27_Witness ==
    /\ last.op = "change_password" /\ last.code = 429
    /\ last.target = "ip1" /\ last.actor = "E1"
    /\ Len(rateLimitStore[<<"ip1", "E1">>]) = maxSensitive
    /\ rateLimitStore[<<"ip1", "E1">>][1] < now
    /\ Len(rateLimitStore[<<"ip1", "E2">>]) = 1

-----------------------------------------------------------------------------
\* C28: after any sequence of task creations, status requests, field
\* updates, archivings and user deactivations a task's statusHistory agrees
\* with its status: with an empty history the status is pending, and
\* otherwise the last entry of the history holds the task's status.
C28_HistoryAgreesWithStatus ==
    \A t \in TaskIds : tasks[t].exists =>
        IF tasks[t].statusHistory = <<>>
        THEN tasks[t].status = "pending"
        ELSE tasks[t].statusHistory[Len(tasks[t].statusHistory)].status
                = tasks[t].status

\* C29: the audit entry written for a status request answered 200 holds as
\* previousStatus the status the task had right before the request and as
\* newStatus the requested status, whatever requests came before, a request
\* for the status the task already has included.
C29_AuditRecordsPreviousStatus ==
    [][\A t \in TaskIds :
          (Served("transition") /\ last'.target = t /\ last'.code = 200) =>
             \A i \in DOMAIN Appended :
                IsStatusEntry(Appended[i], t, last'.actor) =>
                   /\ Appended[i].details.previousStatus = tasks[t].status
                   /\ Appended[i].details.newStatus = last'.arg]_vars

-----------------------------------------------------------------------------
(* Deactivation: the super admin and a manager deactivate and reactivate
   E1 and themselves, while E1 logs in, uses its token and registers again,
   and time passes *)
NextDeactivate ==
    \/ \E a \in {"A", "M1"}, id \in {"A", "M1", "E1"} : DeactivateUser(a, id)
    \/ \E a \in {"A", "M1"}, isActive \in BOOLEAN : ActivateUser(a, "E1", isActive)
    \/ \E a \in {"A", "M1"} :
            UpdateUser(a, "E1", {<<"isActive", TRUE>>}, Undefined)
    \/ \E password \in Passwords : Login("E1", password) /\ Len(audit') <= MaxAudit
    \/ GetMe("E1") /\ Len(audit') <= MaxAudit
    \/ Register("E1", Undefined, Undefined)
    \/ Tick

SpecDeactivate == Init /\ [][NextDeactivate]_vars

\* A login of user x or a request with a token of x
RequestOf(x) == now' = now /\ last'.actor = x /\ last'.op # "register"

\* C30: a deactivation answered 200 leaves the user's record in place with
\* isActive false; while a user is inactive every login for it and every
\* request with its token is refused, and only a request of a super admin
\* makes it active again; a super admin's deactivation of its own account
\* is answered 400 and changes nothing.
C30_DeactivatedStaysOut ==
    [][\A x \in UserIds :
          /\ (Served("deactivate_user") /\ last'.target = x /\ last'.code = 200) =>
                users'[x].exists /\ ~users'[x].isActive
          /\ (users[x].exists /\ ~users[x].isActive /\ RequestOf(x)) =>
                last'.code \in {401, 423}
          /\ (users[x].exists /\ ~users[x].isActive /\ users'[x].isActive) =>
                /\ last'.op \in {"activate_user", "update_user"}
                /\ last'.target = x /\ last'.code = 200
                /\ users[last'.actor].role = "super_admin"
          /\ (Served("deactivate_user") /\ last'.target = x /\ last'.actor = x
                /\ users[x].role = "super_admin") =>
                /\ last'.code = 400
                /\ UNCHANGED <<users, tasks, audit>>]_vars

\* E1 was deactivated by DELETE /api/users/E1 and has since been refused a
\* login with the right password
C30_Witness ==
    /\ ~users["E1"].isActive
    /\ \E i \in DOMAIN audit :
          audit[i].action = "user_deleted" /\ audit[i].resourceId = "E1"
    /\ last.op = "login" /\ last.actor = "E1" /\ last.arg = "right"
    /\ last.code = 401

=============================================================================
